---- MODULE Spec2Model ----
(***************************************************************************)
(* Model of src/src/dataset.py: the field normalizers (parse_date,         *)
(* preprocess_phone_number), the three schema transformers                 *)
(* (preprocess_type_1/2/3) with their chunk loop, and the dispatch harness *)
(* (load_csv, load_dfs, main).                                             *)
(*                                                                         *)
(* A DataFrame is a record [columns, rows]: the set of column labels and   *)
(* the sequence of rows.  A row is [id, cell]: the position the row had in *)
(* the input batch and the kind of value its text cells hold.  Text is a   *)
(* sequence of one-character strings.                                      *)
(***************************************************************************)
EXTENDS Integers, Sequences, FiniteSets, TLC

VARIABLES
    local,            \* main: --local option
    parallel,         \* main: --parallel option
    clickhouse_uri,   \* main: --clickhouse-uri option
    path,             \* which loader main called: "none", "load_csv", "load_dfs"
    dfs,              \* the list dfs of load_csv / load_dfs, positions 0..2
    i,                \* loop variable of the enumerate(dfs) loops
    pc,               \* position of the orchestrator (main and the loader it calls)
    pool,             \* per dataset position: state of the call of preprocess_type_*
    attempts,         \* per dataset position: how many times its transformer was called
    written,          \* TRUE once df.to_csv has written the output file
    variant,          \* transformer being run: 1, 2, 3 (0 when none)
    arg,              \* the batch the running transformer was called with
    df,               \* local variable df of the running transformer
    chunks,           \* local variable chunks
    processed_chunks, \* local variable processed_chunks
    tpc,              \* position inside the running transformer
    date_str,         \* parse_date: the argument
    date_out,         \* parse_date: the value returned for date_str
    date_again,       \* parse_date: the value returned for date_out
    date_pc,          \* parse_date harness position
    zero_pad_year,    \* whether the platform's strftime("%Y") zero-pads years below 1000
    phone_number,     \* preprocess_phone_number: the argument
    phone_repaired,   \* preprocess_phone_number: the string handed to phonenumbers.parse
    phone_out,        \* preprocess_phone_number: the value returned
    phone_pc          \* preprocess_phone_number harness position

vars == <<local, parallel, clickhouse_uri, path, dfs, i, pc, pool, attempts, written,
          variant, arg, df, chunks, processed_chunks, tpc,
          date_str, date_out, date_again, date_pc, zero_pad_year,
          phone_number, phone_repaired, phone_out, phone_pc>>

main_vars  == <<local, parallel, clickhouse_uri, path, dfs, i, pc, pool, attempts,
               written>>
xform_vars == <<variant, arg, df, chunks, processed_chunks, tpc>>
date_vars  == <<date_str, date_out, date_again, date_pc, zero_pad_year>>
phone_vars == <<phone_number, phone_repaired, phone_out, phone_pc>>

(***************************************************************************)
(* Bounds of the model.                                                    *)
(***************************************************************************)
MaxChunks == 3      \* batches span up to MaxChunks chunks in the transformer runs
MaxRows == 1        \* rows per dataset in the runs of main
MaxCompLen == 2     \* characters per month / day component of a date input
MaxPhoneLen == 3    \* characters per phone input

(***************************************************************************)
(* pandas.DataFrame as used by the transformers.                           *)
(***************************************************************************)
chunk_size == 1000

NoFrame == [columns |-> {}, rows |-> <<>>]

\* Kinds of value a text cell of a raw record can hold: parseable text,
\* text no normalizer can interpret, or a missing value (float NaN).
Cells == {"text", "garbage", "nan"}

\* Column layouts of the three sources (the columns the transformers read).
Layout(v) ==
    CASE v = 1 -> {"uid", "full_name", "phone", "email"}
      [] v = 2 -> {"uid", "full_name", "birthdate", "phone", "address"}
      [] v = 3 -> {"uid", "name", "birthdate"}

Batch(cols, n, fill) ==
    [columns |-> cols, rows |-> [j \in 1..n |-> [id |-> j, cell |-> fill]]]

Min(a, b) == IF a < b THEN a ELSE b

\* df.rename(columns={"uid": "unique_id"}, inplace=True): labels that are
\* absent are ignored (errors="ignore" is the default).
rename_uid(frame) ==
    [frame EXCEPT !.columns =
        IF "uid" \in frame.columns
        THEN (frame.columns \ {"uid"}) \cup {"unique_id"}
        ELSE frame.columns]

\* The slice with its upper bound included: df.loc[a : b] on the default
\* index, in place of df[a : b].
slice_closed(frame, a, b) ==
    [columns |-> frame.columns,
     rows |-> SubSeq(frame.rows, a + 1, Min(b + 1, Len(frame.rows)))]

\* df[a : b] with Python's 0-based half-open bounds: a new frame holding
\* the rows a+1 .. min(b, N) and the columns the frame has now.
slice(frame, a, b) ==
    [columns |-> frame.columns,
     rows |-> SubSeq(frame.rows, a + 1, Min(b, Len(frame.rows)))]

\* range(0, n, chunk_size) as the sequence of its values.
chunk_starts(n) ==
    [k \in 1..((n + chunk_size - 1) \div chunk_size) |-> (k - 1) * chunk_size]

\* chunks = [df[i : i + chunk_size] for i in range(0, df.shape[0], chunk_size)]
make_chunks(frame) ==
    LET starts == chunk_starts(Len(frame.rows))
    IN  [k \in 1..Len(starts) |-> slice(frame, starts[k], starts[k] + chunk_size)]

\* Columns one loop body reads with chunk[...]; a missing one is a KeyError.
columns_read(v) == Layout(v) \ {"uid"}

name_columns == {"first_name", "middle_name", "last_name"}

\* Column the transformer drops after the loop.
dropped_column(v) == IF v = 3 THEN "name" ELSE "full_name"

\* The loop body raises: a column it reads is absent (KeyError), or the
\* name column holds NaN, on which .lower() / .split() is an AttributeError.
chunk_raises(v, chunk) ==
    \/ ~(columns_read(v) \subseteq chunk.columns)
    \/ \E j \in 1..Len(chunk.rows) : chunk.rows[j].cell = "nan"

\* A normalizer applied to one cell: the canonical string, or None when the
\* text cannot be interpreted.
normalize_cell(cell) == IF cell = "text" THEN "canonical" ELSE "null"

\* One pass of the loop body over a chunk: element-wise .apply, row by row,
\* plus the three name columns.
process_chunk(v, chunk) ==
    [columns |-> chunk.columns \cup name_columns,
     rows |-> [j \in 1..Len(chunk.rows) |->
                  [id |-> chunk.rows[j].id,
                   cell |-> normalize_cell(chunk.rows[j].cell)]]]

\* df.drop(columns=[col], inplace=True) raises KeyError for an absent label.
drop_raises(frame, col) == col \notin frame.columns
drop(frame, col) == [frame EXCEPT !.columns = frame.columns \ {col}]

RECURSIVE concat_rows(_)
concat_rows(frames) ==
    IF frames = <<>> THEN <<>>
    ELSE frames[1].rows \o concat_rows(Tail(frames))

\* pd.concat(frames, ignore_index=True): ValueError on an empty list; else
\* the rows in list order under the union of the frames' columns.
concat_raises(frames) == frames = <<>>
concat(frames) ==
    [columns |-> UNION {frames[k].columns : k \in 1..Len(frames)},
     rows |-> concat_rows(frames)]

(***************************************************************************)
(* preprocess_type_1 / _2 / _3 as a step machine over tpc.                 *)
(*   rename -> chunks -> loop -> drop -> concat -> returned  (types 1, 3)  *)
(*   rename -> chunks -> loop -> concat -> drop -> returned  (type 2)      *)
(* Any step that raises ends the call in "raised".                         *)
(***************************************************************************)
after_loop(v) == IF v = 2 THEN "concat" ELSE "drop"
after_drop(v) == IF v = 2 THEN "returned" ELSE "concat"
after_concat(v) == IF v = 2 THEN "drop" ELSE "returned"

Rename ==
    /\ tpc = "rename"
    /\ df' = rename_uid(df)
    /\ tpc' = "chunks"
    /\ UNCHANGED <<variant, arg, chunks, processed_chunks>>
    /\ UNCHANGED <<main_vars, date_vars, phone_vars>>

MakeChunks ==
    /\ tpc = "chunks"
    /\ chunks' = make_chunks(df)
    /\ processed_chunks' = <<>>
    /\ tpc' = "loop"
    /\ UNCHANGED <<variant, arg, df>>
    /\ UNCHANGED <<main_vars, date_vars, phone_vars>>

\* for chunk in tqdm(chunks): one iteration, or the exit of the loop.
ForChunk ==
    /\ tpc = "loop"
    /\ IF Len(processed_chunks) < Len(chunks)
       THEN LET chunk == chunks[Len(processed_chunks) + 1]
            IN  IF chunk_raises(variant, chunk)
                THEN /\ tpc' = "raised"
                     /\ UNCHANGED processed_chunks
                ELSE /\ processed_chunks' =
                            Append(processed_chunks, process_chunk(variant, chunk))
                     /\ UNCHANGED tpc
       ELSE /\ tpc' = after_loop(variant)
            /\ UNCHANGED processed_chunks
    /\ UNCHANGED <<variant, arg, df, chunks>>
    /\ UNCHANGED <<main_vars, date_vars, phone_vars>>

DropColumn ==
    /\ tpc = "drop"
    /\ IF drop_raises(df, dropped_column(variant))
       THEN /\ tpc' = "raised"
            /\ UNCHANGED df
       ELSE /\ df' = drop(df, dropped_column(variant))
            /\ tpc' = after_drop(variant)
    /\ UNCHANGED <<variant, arg, chunks, processed_chunks>>
    /\ UNCHANGED <<main_vars, date_vars, phone_vars>>

Concat ==
    /\ tpc = "concat"
    /\ IF concat_raises(processed_chunks)
       THEN /\ tpc' = "raised"
            /\ UNCHANGED df
       ELSE /\ df' = concat(processed_chunks)
            /\ tpc' = after_concat(variant)
    /\ UNCHANGED <<variant, arg, chunks, processed_chunks>>
    /\ UNCHANGED <<main_vars, date_vars, phone_vars>>

XformNext == Rename \/ MakeChunks \/ ForChunk \/ DropColumn \/ Concat

(***************************************************************************)
(* load_csv, load_dfs and main.                                            *)
(***************************************************************************)
Positions == 0..2

\* load_csv, both branches: i == 1 -> type 2, i == 2 -> type 3, else type 1.
route_csv(p) == IF p = 1 THEN 2 ELSE IF p = 2 THEN 3 ELSE 1

\* load_dfs: i == 0 -> type 2, i == 1 -> type 3, else type 1.
route_dfs(p) == IF p = 0 THEN 2 ELSE IF p = 1 THEN 3 ELSE 1

route(loader, p) == IF loader = "load_dfs" THEN route_dfs(p) ELSE route_csv(p)

\* Whether the loader hands the call to multiprocessing.Pool().apply:
\* load_dfs always, load_csv when parallel.
uses_pool(loader, par) == loader = "load_dfs" \/ par

\* main: choose the loader.  With local unset and a non-empty clickhouse_uri
\* neither branch assigns dfs, and pd.concat(dfs) is an UnboundLocalError.
Main ==
    /\ pc = "main"
    /\ IF local
       THEN /\ path' = "load_csv"
            /\ pc' = "loop"
       ELSE IF clickhouse_uri = ""
            THEN /\ path' = "load_dfs"
                 /\ pc' = "loop"
            ELSE /\ pc' = "aborted"
                 /\ UNCHANGED path
    /\ i' = 0
    /\ UNCHANGED <<local, parallel, clickhouse_uri, dfs, pool, attempts, written>>
    /\ UNCHANGED <<xform_vars, date_vars, phone_vars>>

\* One iteration of "for i, df in enumerate(dfs)": the call of the routed
\* transformer on dfs[i].  pool.apply(f, (df,)) submits the call to a worker
\* and blocks until its result is there; the plain call runs in the caller.
Dispatch ==
    /\ pc = "loop"
    /\ i \in Positions
    /\ variant' = route(path, i)
    /\ arg' = dfs[i]
    /\ df' = dfs[i]
    /\ chunks' = <<>>
    /\ processed_chunks' = <<>>
    /\ tpc' = "rename"
    /\ pool' = [pool EXCEPT ![i] = "running"]
    /\ attempts' = [attempts EXCEPT ![i] = @ + 1]
    /\ pc' = IF uses_pool(path, parallel) THEN "blocked" ELSE "calling"
    /\ UNCHANGED <<local, parallel, clickhouse_uri, path, dfs, i, written>>
    /\ UNCHANGED <<date_vars, phone_vars>>

\* The transformer returned: dfs[i] = <its result>, and the loop goes on;
\* after the last position the loader returns dfs to main.
Collect ==
    /\ pc \in {"blocked", "calling"}
    /\ tpc = "returned"
    /\ dfs' = [dfs EXCEPT ![i] = df]
    /\ pool' = [pool EXCEPT ![i] = "done"]
    /\ i' = i + 1
    /\ pc' = IF i + 1 \in Positions THEN "loop" ELSE "concat"
    /\ tpc' = "idle"
    /\ UNCHANGED <<local, parallel, clickhouse_uri, path, attempts, written>>
    /\ UNCHANGED <<variant, arg, df, chunks, processed_chunks>>
    /\ UNCHANGED <<date_vars, phone_vars>>

\* The failure logged and passed over: the loop goes on with the next
\* dataset, as under "except Exception: continue".
ReraiseSwallowed ==
    /\ pc \in {"blocked", "calling"}
    /\ tpc = "raised"
    /\ pool' = [pool EXCEPT ![i] = "raised"]
    /\ i' = i + 1
    /\ pc' = IF i + 1 \in Positions THEN "loop" ELSE "concat"
    /\ UNCHANGED <<local, parallel, clickhouse_uri, path, dfs, attempts, written>>
    /\ UNCHANGED <<xform_vars, date_vars, phone_vars>>

\* The transformer raised: pool.apply re-raises the worker's exception in the
\* caller (the plain call raises directly); no except clause of load_csv,
\* load_dfs or main catches it, so main ends there.
Reraise ==
    /\ pc \in {"blocked", "calling"}
    /\ tpc = "raised"
    /\ pool' = [pool EXCEPT ![i] = "raised"]
    /\ pc' = "aborted"
    /\ UNCHANGED <<local, parallel, clickhouse_uri, path, dfs, i, attempts, written>>
    /\ UNCHANGED <<xform_vars, date_vars, phone_vars>>

\* df = pd.concat(dfs, ignore_index=True); df.to_csv(...)
Persist ==
    /\ pc = "concat"
    /\ written' = TRUE
    /\ pc' = "done"
    /\ UNCHANGED <<local, parallel, clickhouse_uri, path, dfs, i, pool, attempts>>
    /\ UNCHANGED <<xform_vars, date_vars, phone_vars>>

(***************************************************************************)
(* Text helpers.  None is Python's None, distinct from every text.         *)
(***************************************************************************)
None == <<"None">>

Digits == {"0", "1", "2", "3", "4", "5", "6", "7", "8", "9"}

digit_value(c) ==
    CASE c = "0" -> 0 [] c = "1" -> 1 [] c = "2" -> 2 [] c = "3" -> 3
      [] c = "4" -> 4 [] c = "5" -> 5 [] c = "6" -> 6 [] c = "7" -> 7
      [] c = "8" -> 8 [] c = "9" -> 9

digit_char(n) == CHOOSE c \in Digits : digit_value(c) = n

all_digits(s) == \A k \in 1..Len(s) : s[k] \in Digits

\* int(s) raises ValueError unless s is a non-empty run of digits (the
\* components parse_date converts hold no sign, blank or underscore).
int_raises(s) == s = <<>> \/ ~all_digits(s)

RECURSIVE int(_)
int(s) == IF s = <<>> THEN 0 ELSE 10 * int(SubSeq(s, 1, Len(s) - 1)) + digit_value(s[Len(s)])

\* n written with at least width digits, zero-padded on the left.
RECURSIVE zfill(_, _)
zfill(n, width) ==
    IF n < 10 /\ width <= 1 THEN <<digit_char(n)>>
    ELSE zfill(n \div 10, width - 1) \o <<digit_char(n % 10)>>

Whitespace == {" ", "\t", "\n", "\r"}

\* str.strip()
RECURSIVE strip(_)
strip(s) ==
    IF s = <<>> THEN s
    ELSE IF s[1] \in Whitespace THEN strip(Tail(s))
    ELSE IF s[Len(s)] \in Whitespace THEN strip(SubSeq(s, 1, Len(s) - 1))
    ELSE s

\* str.split(sep) for a one-character sep: the pieces between the
\* separators, empty pieces included.
RECURSIVE split(_, _)
split(s, sep) ==
    IF \A k \in 1..Len(s) : s[k] # sep THEN <<s>>
    ELSE LET k == CHOOSE k \in 1..Len(s) :
                      s[k] = sep /\ \A m \in 1..(k - 1) : s[m] # sep
         IN  <<SubSeq(s, 1, k - 1)>> \o split(SubSeq(s, k + 1, Len(s)), sep)

(***************************************************************************)
(* parse_date.                                                             *)
(***************************************************************************)
\* The directives of datetime.strptime as whole-component patterns:
\* %Y is \d\d\d\d, %m is 1[0-2]|0[1-9]|[1-9], %d is
\* 3[01]|[12]\d|0[1-9]|[1-9]| [1-9].
matches_Y(s) == Len(s) = 4 /\ all_digits(s)

matches_m(s) ==
    \/ Len(s) = 1 /\ s[1] \in Digits \ {"0"}
    \/ Len(s) = 2 /\ s[1] = "0" /\ s[2] \in Digits \ {"0"}
    \/ Len(s) = 2 /\ s[1] = "1" /\ s[2] \in {"0", "1", "2"}

matches_d(s) ==
    \/ Len(s) = 1 /\ s[1] \in Digits \ {"0"}
    \/ Len(s) = 2 /\ s[1] = "0" /\ s[2] \in Digits \ {"0"}
    \/ Len(s) = 2 /\ s[1] \in {"1", "2"} /\ s[2] \in Digits
    \/ Len(s) = 2 /\ s[1] = "3" /\ s[2] \in {"0", "1"}
    \/ Len(s) = 2 /\ s[1] = " " /\ s[2] \in Digits \ {"0"}

is_leap(y) == y % 4 = 0 /\ (y % 100 # 0 \/ y % 400 = 0)

days_in_month(y, m) ==
    IF m = 2 THEN (IF is_leap(y) THEN 29 ELSE 28)
    ELSE IF m \in {4, 6, 9, 11} THEN 30 ELSE 31

day_value(s) == IF s[1] = " " THEN int(Tail(s)) ELSE int(s)

\* datetime.strptime(date_str, "%Y-%m-%d") succeeds: the text matches the
\* format to its end and names a date of the calendar (year 1 at least).
strptime_ok(s) ==
    LET parts == split(s, "-")
    IN  /\ Len(parts) = 3
        /\ matches_Y(parts[1])
        /\ matches_m(parts[2])
        /\ matches_d(parts[3])
        /\ int(parts[1]) >= 1
        /\ day_value(parts[3]) <= days_in_month(int(parts[1]), int(parts[2]))

\* date_obj.strftime("%Y-%m-%d"): month and day in two digits; the year in
\* four digits where the platform pads it, else as the bare number.
strftime(y, m, d) ==
    zfill(y, IF zero_pad_year THEN 4 ELSE 1) \o <<"-">> \o zfill(m, 2) \o <<"-">> \o zfill(d, 2)

\* "Normalize year": None stands for the early return and for the
\* ValueError of int(year) that the except clause turns into None.
normalize_year(year) ==
    IF Len(year) = 2
    THEN IF int_raises(year) THEN None
         ELSE IF int(year) > 21 THEN <<"1", "9">> \o year ELSE <<"2", "0">> \o year
    ELSE IF Len(year) = 3
    THEN IF year[1] = "9" THEN <<"1">> \o year ELSE <<"2">> \o year
    ELSE IF Len(year) # 4 THEN None
    ELSE year

\* "Normalize month" / "Normalize day" with the upper limit 12 / 31.
normalize_component(part, limit) ==
    IF Len(part) = 1 THEN <<"0">> \o part
    ELSE IF int_raises(part) THEN None
    ELSE IF ~(1 <= int(part) /\ int(part) <= limit) THEN None
    ELSE part

\* The second try block of parse_date.
parse_parts(s) ==
    LET parts == split(s, "-")
    IN  IF Len(parts) # 3 THEN None
        ELSE LET year  == normalize_year(parts[1])
                 month == normalize_component(parts[2], 12)
                 day   == normalize_component(parts[3], 31)
             IN  IF year = None \/ month = None \/ day = None THEN None
                 ELSE year \o <<"-">> \o month \o <<"-">> \o day

parse_date(text) ==
    LET s == strip(text)
    IN  IF strptime_ok(s)
        THEN LET parts == split(s, "-")
             IN  strftime(int(parts[1]), int(parts[2]), day_value(parts[3]))
        ELSE parse_parts(s)

\* parse_date(date_str)
ParseDate ==
    /\ date_pc = "in"
    /\ date_out' = parse_date(date_str)
    /\ date_pc' = "once"
    /\ UNCHANGED <<date_str, date_again, zero_pad_year>>
    /\ UNCHANGED <<main_vars, xform_vars, phone_vars>>

\* parse_date applied to a value parse_date returned.
ParseAgain ==
    /\ date_pc = "once"
    /\ date_out # None
    /\ date_again' = parse_date(date_out)
    /\ date_pc' = "twice"
    /\ UNCHANGED <<date_str, date_out, zero_pad_year>>
    /\ UNCHANGED <<main_vars, xform_vars, phone_vars>>

(***************************************************************************)
(* preprocess_phone_number.                                                *)
(***************************************************************************)
\* str.replace(old, new) for one-character old and new.
replace(s, old, new) == [k \in 1..Len(s) |-> IF s[k] = old THEN new ELSE s[k]]

\* The chain of .replace calls, in the order of the source.
repair(s) ==
    replace(replace(replace(replace(replace(replace(replace(s,
        "i", "1"), "l", "1"), "o", "0"), "s", "5"), "I", "1"), "O", "0"), "S", "5")

\* What phonenumbers.format_number returns for a number that parsed.
Formatted == <<"INTERNATIONAL">>

\* The repair, then the library: either it parses and the formatted number
\* is returned, or NumberParseException is caught and None is returned.
PreprocessPhone ==
    /\ phone_pc = "in"
    /\ phone_repaired' = repair(phone_number)
    /\ \E parsed \in BOOLEAN : phone_out' = IF parsed THEN Formatted ELSE None
    /\ phone_pc' = "out"
    /\ UNCHANGED phone_number
    /\ UNCHANGED <<main_vars, xform_vars, date_vars>>

(***************************************************************************)
(* Inputs and specifications.                                              *)
(***************************************************************************)
MainIdle ==
    /\ local = FALSE
    /\ parallel = FALSE
    /\ clickhouse_uri = ""
    /\ path = "none"
    /\ dfs = [p \in Positions |-> NoFrame]
    /\ i = 0
    /\ pc = "idle"
    /\ pool = [p \in Positions |-> "none"]
    /\ attempts = [p \in Positions |-> 0]
    /\ written = FALSE

XformIdle ==
    /\ variant = 0
    /\ arg = NoFrame
    /\ df = NoFrame
    /\ chunks = <<>>
    /\ processed_chunks = <<>>
    /\ tpc = "idle"

DateIdle ==
    /\ date_str = <<>>
    /\ date_out = None
    /\ date_again = None
    /\ date_pc = "idle"
    /\ zero_pad_year = TRUE

PhoneIdle ==
    /\ phone_number = <<>>
    /\ phone_repaired = <<>>
    /\ phone_out = None
    /\ phone_pc = "idle"

\* Datasets the loaders read in the runs of main: any of the three layouts,
\* 0..MaxRows rows of text.
MainBatches == {Batch(Layout(v), n, "text") : v \in 1..3, n \in 0..MaxRows}

\* main as the command line starts it, the three datasets as read by
\* pd.read_csv / pd.read_sql.
Init ==
    /\ local \in BOOLEAN
    /\ parallel \in BOOLEAN
    /\ clickhouse_uri \in {"", "clickhouse://db"}
    /\ path = "none"
    /\ dfs \in [Positions -> MainBatches]
    /\ i = 0
    /\ pc = "main"
    /\ pool = [p \in Positions |-> "none"]
    /\ attempts = [p \in Positions |-> 0]
    /\ written = FALSE
    /\ XformIdle
    /\ DateIdle
    /\ PhoneIdle

Next ==
    \/ Main
    \/ Dispatch
    \/ Rename
    \/ MakeChunks
    \/ ForChunk
    \/ DropColumn
    \/ Concat
    \/ Collect
    \/ Reraise
    \/ Persist

Spec == Init /\ [][Next]_vars

\* Batches for the runs of one transformer: a layout, or a layout with one
\* of its columns absent; sizes around the chunk boundaries.
ColumnSets ==
    UNION {{Layout(v) \ D : D \in {{}} \cup {{c} : c \in Layout(v)}} : v \in 1..3}

Sizes ==
    {k * chunk_size + d :
        k \in 0..(MaxChunks - 1), d \in {0, 1, chunk_size \div 2, chunk_size - 1}}

\* One call preprocess_type_<variant>(arg).
InitXform ==
    /\ MainIdle
    /\ variant \in 1..3
    /\ arg \in {Batch(cols, n, fill) : cols \in ColumnSets, n \in Sizes, fill \in Cells}
    /\ df = arg
    /\ chunks = <<>>
    /\ processed_chunks = <<>>
    /\ tpc = "rename"
    /\ DateIdle
    /\ PhoneIdle

SpecXform == InitXform /\ [][XformNext]_vars

\* Date texts: year-month-day with the month and day drawn from all texts
\* of up to MaxCompLen characters (a "-" inside one adds a component, "/"
\* stands for the separators that are not split on), and texts with fewer
\* components.
CompChars == {"0", "1", "3", "-", "/"}

Comps == UNION {[1..n -> CompChars] : n \in 0..MaxCompLen}

Years ==
    { <<>>, <<"5">>, <<"1", "3">>, <<"2", "1">>, <<"9", "5">>, <<"9", ".">>,
      <<"1", "3", "1">>, <<"9", "9", "5">>,
      <<"0", "0", "0", "0">>, <<"0", "9", "9", "5">>, <<"1", "9", "9", "5">>,
      <<"2", "0", "0", "0">>, <<"1", "9", "/", "5">>,
      <<"1", "9", "9", "5", "0">> }

InitDate ==
    /\ MainIdle
    /\ XformIdle
    /\ \/ \E y \in Years, m \in Comps, d \in Comps :
              date_str = y \o <<"-">> \o m \o <<"-">> \o d
       \/ date_str \in Years \cup Comps
    /\ date_out = None
    /\ date_again = None
    /\ date_pc = "in"
    /\ zero_pad_year \in BOOLEAN
    /\ PhoneIdle

NextDate == ParseDate \/ ParseAgain

SpecDate == InitDate /\ [][NextDate]_vars

PhoneChars == {"i", "I", "l", "L", "o", "O", "s", "S", "8", "+"}

PhoneInputs == UNION {[1..n -> PhoneChars] : n \in 0..MaxPhoneLen}

InitPhone ==
    /\ MainIdle
    /\ XformIdle
    /\ DateIdle
    /\ phone_number \in PhoneInputs
    /\ phone_repaired = <<>>
    /\ phone_out = None
    /\ phone_pc = "in"

NextPhone == PreprocessPhone

SpecPhone == InitPhone /\ [][NextPhone]_vars

(***************************************************************************)
(* Properties.                                                             *)
(***************************************************************************)
\* C1: row-count invariant.  A transformer called with a batch of N >= 0
\* records that has every column of its layout and holds text (parseable
\* or not) in its cells returns normally, with exactly N records.
C1_RowCountPreserved ==
    (/\ tpc \in {"returned", "raised"}
     /\ Layout(variant) \subseteq arg.columns
     /\ \A j \in 1..Len(arg.rows) : arg.rows[j].cell \in {"text", "garbage"})
        => (tpc = "returned" /\ Len(df.rows) = Len(arg.rows))

\* C2: after a successful run on a non-empty batch with the columns of
\* the transformer's layout, the returned batch no longer has the
\* source-only column (full_name for types 1 and 2, name for type 3).
C2_SourceColumnDropped ==
    (/\ tpc = "returned"
     /\ Len(arg.rows) > 0
     /\ Layout(variant) \subseteq arg.columns)
        => dropped_column(variant) \notin df.columns

\* C3: a transformer called with a batch without a uid column fails; a
\* batch it returns carries unique_id (and no uid any more).
C3_UidRequired ==
    tpc \in {"returned", "raised"} =>
        /\ "uid" \notin arg.columns => tpc = "raised"
        /\ tpc = "returned" => ("unique_id" \in df.columns /\ "uid" \notin df.columns)

\* C4: the string handed to the phone parser is the input with every
\* i/I/l/L replaced by 1, o/O by 0 and s/S by 5, all else unchanged; none
\* of these eight letters is left in it.
C4_RepairIgnoresCase ==
    LET confused_digit(c) ==
            IF c \in {"i", "I", "l", "L"} THEN "1"
            ELSE IF c \in {"o", "O"} THEN "0"
            ELSE IF c \in {"s", "S"} THEN "5"
            ELSE c
    IN  phone_pc = "out" =>
        /\ Len(phone_repaired) = Len(phone_number)
        /\ \A k \in 1..Len(phone_number) :
                phone_repaired[k] = confused_digit(phone_number[k])
        /\ \A k \in 1..Len(phone_repaired) :
                phone_repaired[k] \notin {"i", "I", "l", "L", "o", "O", "s", "S"}

\* C5: an input that the strict parse rejects and that splits into year,
\* month and day yields None when the month is a number outside 1..12 or
\* the day a number outside 1..31, whatever the length of the component.
C5_OutOfRangeIsNone ==
    LET parts == split(date_str, "-")
        out_of_range(part, limit) ==
            ~int_raises(part) /\ ~(1 <= int(part) /\ int(part) <= limit)
    IN  (/\ date_pc \in {"once", "twice"}
         /\ ~strptime_ok(date_str)
         /\ Len(parts) = 3
         /\ (out_of_range(parts[2], 12) \/ out_of_range(parts[3], 31)))
            => date_out = None

\* C6: parse_date is idempotent: a value it returned is returned unchanged
\* when parse_date is applied to it (stated for the platforms whose
\* strftime writes the year in four digits).
C6_ParseDateIdempotent ==
    (zero_pad_year /\ date_pc = "twice") => date_again = date_out

\* C7: the batch is cut into ceil(N / 1000) contiguous chunks in input
\* order, each of 1000 records except a last one of N mod 1000 when that is
\* not zero; the chunks are processed one after the other in that order;
\* the returned batch holds at position j the record made from input
\* record j.
C7_ChunksInInputOrder ==
    LET N == Len(arg.rows)
        ceil_div(a, b) == (a + b - 1) \div b
    IN  /\ tpc \in {"loop", "drop", "concat", "returned", "raised"} =>
            /\ Len(chunks) = ceil_div(N, chunk_size)
            /\ \A k \in 1..Len(chunks) :
                   /\ chunks[k].rows =
                          SubSeq(arg.rows, (k - 1) * chunk_size + 1, Min(k * chunk_size, N))
                   /\ Len(chunks[k].rows) =
                          IF k = Len(chunks) /\ N % chunk_size # 0
                          THEN N % chunk_size ELSE chunk_size
            /\ Len(processed_chunks) <= Len(chunks)
            /\ \A k \in 1..Len(processed_chunks) :
                   /\ Len(processed_chunks[k].rows) = Len(chunks[k].rows)
                   /\ \A j \in 1..Len(chunks[k].rows) :
                          processed_chunks[k].rows[j].id = chunks[k].rows[j].id
        /\ tpc = "returned" =>
            /\ Len(df.rows) = N
            /\ \A j \in 1..N : df.rows[j].id = arg.rows[j].id

\* C7 witness: a type 2 batch of 2500 records went through the chunks
\* 1000 / 1000 / 500 and was returned.
C7_Witness ==
    /\ tpc = "returned"
    /\ variant = 2
    /\ Len(arg.rows) = 2500
    /\ Len(processed_chunks) = 3
    /\ Len(processed_chunks[1].rows) = 1000
    /\ Len(processed_chunks[2].rows) = 1000
    /\ Len(processed_chunks[3].rows) = 500
    /\ Len(df.rows) = 2500

\* C8: once the transformation of a dataset has raised, no transformer is
\* called a second time, the run of main ends without reaching the
\* concatenate-and-persist step, and no output file is written.
C8_FailureIsFatal ==
    /\ \A p \in Positions : attempts[p] <= 1
    /\ (tpc = "raised" \/ \E p \in Positions : pool[p] = "raised") =>
          /\ written = FALSE
          /\ pc \in {"blocked", "calling", "aborted"}
    /\ (\E p \in Positions : pool[p] = "raised") => pc = "aborted"

\* C8 witness: the first dataset was transformed, the second raised, and
\* main has ended with nothing written.
C8_Witness ==
    /\ pool[0] = "done"
    /\ pool[1] = "raised"
    /\ pool[2] = "none"
    /\ pc = "aborted"
    /\ written = FALSE

\* C9: in the runs through the pool, all three transformations have been
\* dispatched by the time the orchestrator blocks on a result.
C9_FanOutBeforeJoin ==
    pc = "blocked" => \A p \in Positions : pool[p] # "none"

\* C10: the loaders agree on the routing: the transformer called for the
\* dataset at position i is the one every loader routes position i to.
C10_LoadersRouteAlike ==
    (pc \in {"blocked", "calling"})
        => \A loader \in {"load_csv", "load_dfs"} : route(loader, i) = variant

====
